---------------------------- MODULE Spec2Model ----------------------------
(***************************************************************************)
(* A model of landingai/common.py (run-length decoding of segmentation     *)
(* bitmaps and the prediction value objects with their cached derived      *)
(* properties) and of the credential helpers of landingai/st_utils.py.     *)
(*                                                                         *)
(* A Python str is a sequence of one-character strings.  A call that can   *)
(* raise returns a record [ok |-> FALSE, err |-> <exception name>]; a call *)
(* that returns normally gives [ok |-> TRUE, val |-> <value>].             *)
(***************************************************************************)
EXTENDS Integers, Sequences, FiniteSets, TLC

VARIABLES
    \* decode_bitmap_rle(bitmap, encoding_map) as a stand-alone call
    pc,             \* "encode" | "ready" | "done"
    mask,           \* the mask a bitmap was encoded from, or NoMask
    bitmap,         \* argument: the run-length encoded string
    encoding_map,   \* argument: delimiter character -> bit value
    bitmap_list,    \* local: the token list re.split produced
    flat_mask,      \* the call's outcome, or NotComputed
    \* one SegmentationPrediction instance
    seg,            \* its fields
    seg_cache,      \* cached_property name -> value stored in the instance
    decode_calls,   \* number of calls of decode_bitmap_rle made for it
    seg_ret,        \* the last property access and its outcome
    seg_first,      \* property name -> outcome of its first access
    \* one ObjectDetectionPrediction instance
    det,            \* its fields
    det_cache,      \* the cached num_predicted_pixels, or NotComputed
    det_ret,        \* outcome of the last read of num_predicted_pixels
    \* the streamlit session of an example App
    session_state,  \* st.session_state: key -> value, or Absent
    environ,        \* os.environ["LANDINGAI_API_KEY"], or Absent
    st_ret,         \* outcome of the last get_api_credential_or_use_default()
    st_info         \* whether the last render showed "default API key is used"

rle_vars == <<pc, mask, bitmap, encoding_map, bitmap_list, flat_mask>>
seg_vars == <<seg, seg_cache, decode_calls, seg_ret, seg_first>>
det_vars == <<det, det_cache, det_ret>>
st_vars  == <<session_state, environ, st_ret, st_info>>
vars == <<rle_vars, seg_vars, det_vars, st_vars>>

\* a cell that holds no value yet
NotComputed == [computed |-> FALSE]
\* the bitmap was not encoded from a mask
NoMask == [present |-> FALSE]
SomeMask(m) == [present |-> TRUE, rows |-> m]
Absent == "Absent"
None == "None"

Ok(v) == [ok |-> TRUE, val |-> v]
Raise(e) == [ok |-> FALSE, err |-> e]

-----------------------------------------------------------------------------
(* Bounds of the model                                                     *)

\* longest bitmap string drawn as an arbitrary input
MaxLen == 4
\* largest height and width of a mask that is run-length encoded
MaxH == 2
MaxW == 5
\* largest height and width of a mask_shape
MaxDim == 2
\* longest arbitrary encoded_mask of the SegmentationPrediction instance
MaxSegLen == 2
\* most pixels of a mask the instance's encoded_mask is the encoding of
MaxBits == 4
\* largest label_index
MaxLabel == 2
\* most calls of decode_bitmap_rle followed for one instance
MaxCalls == 2
\* largest bounding box coordinate
MaxCoord == 3

\* the characters arbitrary bitmap strings are made of
Chars == {"0", "1", "2", "Z", "N", "A", "B", "-"}
\* the characters the keys of an encoding_map are drawn from
KeyChars == {"Z", "N", "A", "B"}

Digits == {"0", "1", "2", "3", "4", "5", "6", "7", "8", "9"}

DigitVal(c) ==
    CASE c = "0" -> 0 [] c = "1" -> 1 [] c = "2" -> 2 [] c = "3" -> 3
      [] c = "4" -> 4 [] c = "5" -> 5 [] c = "6" -> 6 [] c = "7" -> 7
      [] c = "8" -> 8 [] c = "9" -> 9

DigitChar(d) ==
    CASE d = 0 -> "0" [] d = 1 -> "1" [] d = 2 -> "2" [] d = 3 -> "3"
      [] d = 4 -> "4" [] d = 5 -> "5" [] d = 6 -> "6" [] d = 7 -> "7"
      [] d = 8 -> "8" [] d = 9 -> "9"

\* all sequences over S of length at most n
SeqUpTo(S, n) == UNION {[1..k -> S] : k \in 0..n}

\* [x] * n : Python list repetition, empty for n <= 0
Repeat(x, n) == [i \in 1..(IF n > 0 THEN n ELSE 0) |-> x]

-----------------------------------------------------------------------------
(* decode_bitmap_rle                                                       *)

\* the value of a string of decimal digits
RECURSIVE DigitsVal(_)
DigitsVal(s) ==
    IF s = <<>> THEN 0
    ELSE 10 * DigitsVal(SubSeq(s, 1, Len(s) - 1)) + DigitVal(s[Len(s)])

\* int(num): an optional sign, then one or more decimal digits; anything
\* else raises ValueError.  (The strings of the model hold no whitespace and
\* no underscore, which int() would also accept in places.)
int(num) ==
    LET signed == num # <<>> /\ num[1] \in {"-", "+"}
        body   == IF signed THEN Tail(num) ELSE num
    IN  IF body = <<>> \/ \E i \in 1..Len(body) : body[i] \notin Digits
        THEN Raise("ValueError: invalid literal for int()")
        ELSE Ok(IF signed /\ num[1] = "-" THEN 0 - DigitsVal(body)
                ELSE DigitsVal(body))

\* the pattern "(Z|N)" of re.split
SplitPattern == {"Z", "N"}

\* re.split("(Z|N)", s): the text between the matches, with each match kept
\* as a token of its own; 2k+1 tokens for k matches
RECURSIVE re_split_from(_, _, _)
re_split_from(s, i, text) ==
    IF i > Len(s) THEN <<text>>
    ELSE IF s[i] \in SplitPattern
         THEN <<text, <<s[i]>>>> \o re_split_from(s, i + 1, <<>>)
         ELSE re_split_from(s, i + 1, Append(text, s[i]))

re_split(s) == re_split_from(s, 1, <<>>)

\* zip(*[iter(l)] * 2): consecutive pairs; a last unpaired element is dropped
zip_pairs(l) == [k \in 1..(Len(l) \div 2) |-> <<l[2 * k - 1], l[2 * k]>>]

\* the loop body for one (num, map_letter) pair, given the mask so far
decode_pair(acc, pair, emap) ==
    LET num        == pair[1]
        map_letter == pair[2][1]
    IN  IF ~acc.ok THEN acc
        ELSE IF map_letter \notin DOMAIN emap THEN Raise("KeyError")
        ELSE IF ~int(num).ok THEN Raise("ValueError: invalid literal for int()")
        ELSE Ok(acc.val \o Repeat(emap[map_letter], int(num).val))

RECURSIVE decode_loop(_, _, _)
decode_loop(pairs, k, emap) ==
    IF k = 0 THEN Ok(<<>>)
    ELSE decode_pair(decode_loop(pairs, k - 1, emap), pairs[k], emap)

decode_bitmap_rle(b, emap) ==
    LET pairs == zip_pairs(re_split(b))
    IN  decode_loop(pairs, Len(pairs), emap)

-----------------------------------------------------------------------------
(* Run-length encoding, the inverse the service applies before it sends    *)
(* encoded_mask: "<decimal run-length><character of the bit>" per run.     *)

\* str(n) for n >= 0
RECURSIVE str(_)
str(n) ==
    IF n < 10 THEN <<DigitChar(n)>>
    ELSE str(n \div 10) \o <<DigitChar(n % 10)>>

\* row-major flattening of a two-dimensional mask (a sequence of rows)
RECURSIVE Flatten(_)
Flatten(m) == IF m = <<>> THEN <<>> ELSE Head(m) \o Flatten(Tail(m))

\* the length of the run of equal bits that starts bits
RECURSIVE RunLength(_)
RunLength(bits) ==
    IF Len(bits) <= 1 THEN Len(bits)
    ELSE IF bits[2] = bits[1] THEN 1 + RunLength(Tail(bits)) ELSE 1

LetterOf(emap, bit) == CHOOSE c \in DOMAIN emap : emap[c] = bit

RECURSIVE rle_encode(_, _)
rle_encode(bits, emap) ==
    IF bits = <<>> THEN <<>>
    ELSE LET n == RunLength(bits)
         IN  str(n) \o <<LetterOf(emap, bits[1])>>
                \o rle_encode(SubSeq(bits, n + 1, Len(bits)), emap)

-----------------------------------------------------------------------------
(* Inputs                                                                  *)

\* encoding maps: at most two characters, each mapped to a bit
EncodingMaps ==
    UNION {[K -> {0, 1}] : K \in {S \in SUBSET KeyChars : Cardinality(S) <= 2}}

\* encoding maps that give one character to bit 0 and another to bit 1
BitMaps ==
    {m \in EncodingMaps : Cardinality(DOMAIN m) = 2 /\ {m[c] : c \in DOMAIN m} = {0, 1}}

\* boolean masks of shape (h, w) as sequences of h rows of w bits
Masks == UNION {[1..h -> [1..w -> {0, 1}]] : h \in 0..MaxH, w \in 0..MaxW}

IdleRle ==
    /\ pc = "idle" /\ mask = NoMask /\ bitmap = <<>>
    /\ encoding_map = <<>> /\ bitmap_list = <<>> /\ flat_mask = NotComputed

IdleSeg ==
    /\ seg = NotComputed /\ seg_cache = <<>> /\ decode_calls = 0
    /\ seg_ret = NotComputed /\ seg_first = <<>>

IdleDet == det = NotComputed /\ det_cache = NotComputed /\ det_ret = NotComputed

IdleSt ==
    /\ session_state = <<>> /\ environ = Absent
    /\ st_ret = NotComputed /\ st_info = FALSE

-----------------------------------------------------------------------------
(* SpecRle: decode_bitmap_rle applied to a bitmap string, either an        *)
(* arbitrary string or the run-length encoding of a mask.                  *)

InitRle ==
    /\ \/ /\ pc = "ready"
          /\ mask = NoMask
          /\ bitmap \in SeqUpTo(Chars, MaxLen)
          /\ encoding_map \in EncodingMaps
       \/ /\ pc = "encode"
          /\ mask \in {SomeMask(m) : m \in Masks}
          /\ bitmap = <<>>
          /\ encoding_map \in BitMaps
    /\ bitmap_list = <<>>
    /\ flat_mask = NotComputed
    /\ IdleSeg /\ IdleDet /\ IdleSt

\* the sender run-length encodes the flattened mask
Encode ==
    /\ pc = "encode"
    /\ bitmap' = rle_encode(Flatten(mask.rows), encoding_map)
    /\ pc' = "ready"
    /\ UNCHANGED <<mask, encoding_map, bitmap_list, flat_mask>>
    /\ UNCHANGED <<seg_vars, det_vars, st_vars>>

\* flat_mask = decode_bitmap_rle(bitmap, encoding_map)
Decode ==
    /\ pc = "ready"
    /\ bitmap_list' = re_split(bitmap)
    /\ flat_mask' = decode_bitmap_rle(bitmap, encoding_map)
    /\ pc' = "done"
    /\ UNCHANGED <<mask, bitmap, encoding_map>>
    /\ UNCHANGED <<seg_vars, det_vars, st_vars>>

NextRle == Encode \/ Decode

SpecRle == InitRle /\ [][NextRle]_vars

-----------------------------------------------------------------------------
(* What the bitmap format means, stated without the decoder: a bitmap is   *)
(* well formed over an encoding map when it is a concatenation of tokens   *)
(* <one or more decimal digits><key of the map>, and it then denotes each  *)
(* token's bit repeated run-length times, in token order.                  *)

RECURSIVE Denotes(_, _, _, _)
Denotes(s, i, num, emap) ==
    IF i > Len(s)
    THEN IF num = <<>> THEN Ok(<<>>) ELSE Raise("trailing run-length")
    ELSE IF s[i] \in Digits THEN Denotes(s, i + 1, Append(num, s[i]), emap)
    ELSE IF s[i] \in DOMAIN emap /\ num # <<>>
    THEN LET rest == Denotes(s, i + 1, <<>>, emap)
         IN  IF rest.ok
             THEN Ok(Repeat(emap[s[i]], DigitsVal(num)) \o rest.val)
             ELSE rest
    ELSE Raise("bad token")

WellFormed(s, emap) == Denotes(s, 1, <<>>, emap).ok
Expansion(s, emap) == Denotes(s, 1, <<>>, emap).val

\* s split on the characters of keys, each delimiter kept as a token
RECURSIVE SplitOn(_, _, _, _)
SplitOn(s, i, text, keys) ==
    IF i > Len(s) THEN <<text>>
    ELSE IF s[i] \in keys
         THEN <<text, <<s[i]>>>> \o SplitOn(s, i + 1, <<>>, keys)
         ELSE SplitOn(s, i + 1, Append(text, s[i]), keys)

\* C1: every bitmap that is well formed over encoding_map (the empty bitmap
\* included) decodes, without an error, to the concatenation in token order
\* of each delimiter's bit repeated run-length times.
C1_DecodesWellFormedBitmap ==
    (pc = "done" /\ WellFormed(bitmap, encoding_map))
        => flat_mask = Ok(Expansion(bitmap, encoding_map))

\* C2: the delimiters the decoder splits a well-formed bitmap on are exactly
\* the keys of the encoding_map it was given, whatever characters they are.
C2_DelimitersAreMapKeys ==
    (pc = "done" /\ WellFormed(bitmap, encoding_map))
        => bitmap_list = SplitOn(bitmap, 1, <<>>, DOMAIN encoding_map)

\* C3: a bitmap that is not well formed over encoding_map (a missing,
\* negative or non-numeric run-length, a delimiter that is no key of the
\* map, a trailing run-length) never decodes to a bit sequence: the call
\* raises.
C3_MalformedBitmapRaises ==
    (pc = "done" /\ ~WellFormed(bitmap, encoding_map)) => ~flat_mask.ok

\* C4: decoding the run-length encoding of a mask, with the encoding map it
\* was encoded with, gives back the row-major flattening of the mask.
C4_RoundTrip ==
    (pc = "done" /\ mask.present) => flat_mask = Ok(Flatten(mask.rows))

-----------------------------------------------------------------------------
(* SegmentationPrediction and its cached properties                        *)

Props == {"decoded_boolean_mask", "decoded_index_mask", "decoded_colored_mask",
          "num_predicted_pixels", "percentage_predicted_pixels"}

Computed(v) == [computed |-> TRUE, val |-> v]

\* functools.cached_property, the lookup: the name is in the instance __dict__
cached_property_hit(cache, name) == cache[name].computed

\* a plain property in place of cached_property: nothing is kept
property_store(cache, name, r) == cache

\* functools.cached_property, the store: the value a getter returned is kept
\* in the instance __dict__; nothing is kept when the getter raised
cached_property_store(cache, name, r) ==
    IF r.ok THEN [cache EXCEPT ![name] = Computed(r.val)] ELSE cache

\* np.array(flattened_bitmap, dtype=np.uint8)
np_array_uint8(flat) == [k \in 1..Len(flat) |-> flat[k] % 256]

\* a reshape that does not check the size: it pads with 0 or truncates
reshape_unchecked(a, shape) ==
    Ok([i \in 1..shape[1] |-> [j \in 1..shape[2] |->
            IF (i - 1) * shape[2] + j <= Len(a)
            THEN a[(i - 1) * shape[2] + j] ELSE 0]])

\* ndarray.reshape((h, w)) for h, w >= 0: row-major, and a ValueError when
\* the size is not h * w
reshape(a, shape) ==
    LET h == shape[1]
        w == shape[2]
    IN  IF Len(a) # h * w
        THEN Raise("ValueError: cannot reshape array")
        ELSE Ok([i \in 1..h |-> [j \in 1..w |-> a[(i - 1) * w + j]]])

\* the getter of decoded_boolean_mask
decoded_boolean_mask(s) ==
    LET flattened_bitmap == decode_bitmap_rle(s.encoded_mask, s.encoding_map)
    IN  IF ~flattened_bitmap.ok THEN flattened_bitmap
        ELSE reshape(np_array_uint8(flattened_bitmap.val), s.mask_shape)

\* the getter of decoded_index_mask, given the boolean mask (label_index is
\* small enough for the product to stay in uint8)
decoded_index_mask(s, m) ==
    Ok([i \in 1..Len(m) |-> [j \in 1..Len(m[i]) |-> m[i][j] * s.label_index]])

\* np.random.randint(low, high, size, dtype=np.uint8): high is exclusive
randint(low, high, size) == [1..size -> low..(high - 1)]

\* the getter of decoded_colored_mask, given the boolean mask and the colour
\* np.random.randint drew.  cv2.cvtColor asserts that its input is not an
\* empty array; GRAY2RGB copies the grey value into the three channels; the
\* product of two uint8 arrays is taken modulo 256.
decoded_colored_mask(s, m, random_color) ==
    IF s.mask_shape[1] * s.mask_shape[2] = 0
    THEN Raise("cv2.error")
    ELSE Ok([i \in 1..Len(m) |-> [j \in 1..Len(m[i]) |->
                [c \in 1..3 |-> (m[i][j] * random_color[c]) % 256]]])

\* np.count_nonzero
RECURSIVE count_nonzero(_)
count_nonzero(flat) ==
    IF flat = <<>> THEN 0
    ELSE (IF Head(flat) # 0 THEN 1 ELSE 0) + count_nonzero(Tail(flat))

\* the getter of num_predicted_pixels, given the boolean mask
num_predicted_pixels(s, m) == Ok(count_nonzero(Flatten(m)))

\* the getter of percentage_predicted_pixels, given the boolean mask; the
\* quotient is kept as the pair <<numerator, denominator>>
percentage_predicted_pixels(s, m) ==
    LET prod == s.mask_shape[1] * s.mask_shape[2]
    IN  IF prod = 0 THEN Raise("ZeroDivisionError")
        ELSE Ok(<<count_nonzero(Flatten(m)), prod>>)

\* self.decoded_boolean_mask: the cached value, or the getter's result,
\* stored; calls counts the calls of decode_bitmap_rle
boolean_mask_get(s, cache, calls) ==
    IF cached_property_hit(cache, "decoded_boolean_mask")
    THEN [res |-> Ok(cache["decoded_boolean_mask"].val),
          cache |-> cache, calls |-> calls]
    ELSE LET r == decoded_boolean_mask(s)
         IN  [res |-> r,
              cache |-> cached_property_store(cache, "decoded_boolean_mask", r),
              calls |-> calls + 1]

\* the getter of a derived property, which starts by reading
\* self.decoded_boolean_mask
derived_getter(s, p, m, random_color) ==
    CASE p = "decoded_index_mask" -> decoded_index_mask(s, m)
      [] p = "decoded_colored_mask" -> decoded_colored_mask(s, m, random_color)
      [] p = "num_predicted_pixels" -> num_predicted_pixels(s, m)
      [] p = "percentage_predicted_pixels" -> percentage_predicted_pixels(s, m)

\* reading property p of the instance
property_get(s, cache, calls, p, random_color) ==
    IF cached_property_hit(cache, p)
    THEN [res |-> Ok(cache[p].val), cache |-> cache, calls |-> calls]
    ELSE IF p = "decoded_boolean_mask" THEN boolean_mask_get(s, cache, calls)
    ELSE LET bm == boolean_mask_get(s, cache, calls)
             r  == IF ~bm.res.ok THEN bm.res
                   ELSE derived_getter(s, p, bm.res.val, random_color)
         IN  [res |-> r,
              cache |-> cached_property_store(bm.cache, p, r),
              calls |-> bm.calls]

-----------------------------------------------------------------------------
(* SpecSeg: one SegmentationPrediction, constructed from arbitrary fields, *)
(* whose properties are read in any order, any number of times.            *)

\* the characters of the instance's encoded_mask
SegChars == {"1", "Z", "N"}
\* its encoding maps: Z and N, one for each bit
SegMaps == {m \in BitMaps : DOMAIN m = SplitPattern}
\* its encoded masks: the encodings of the bit sequences of up to MaxBits
\* pixels, and the arbitrary strings of up to MaxSegLen characters
SegBitmaps ==
    {rle_encode(bits, m) : bits \in SeqUpTo({0, 1}, MaxBits), m \in SegMaps}
        \cup SeqUpTo(SegChars, MaxSegLen)
\* the channel values followed for the random colour
ChannelSamples == {0, 254, 255}

InitSeg ==
    /\ seg \in [encoded_mask : SegBitmaps,
                encoding_map : SegMaps,
                mask_shape   : (0..MaxDim) \X (0..MaxDim),
                label_index  : 1..MaxLabel]
    /\ seg_cache = [p \in Props |-> NotComputed]
    /\ decode_calls = 0
    /\ seg_ret = [prop |-> "none", res |-> NotComputed, again |-> FALSE]
    /\ seg_first = [p \in Props |-> NotComputed]
    /\ IdleRle /\ IdleDet /\ IdleSt

\* one read of property p; random_color is what np.random.randint returns
\* if the read gets as far as drawing a colour.  seg_first keeps the value
\* the first read that returned one gave, and seg_ret.again tells a read of
\* a property that has returned a value before.
Access(p, random_color) ==
    /\ decode_calls < MaxCalls
    /\ \E out \in {property_get(seg, seg_cache, decode_calls, p, random_color)} :
           /\ seg_cache' = out.cache
           /\ decode_calls' = out.calls
           /\ seg_ret' = [prop |-> p, res |-> out.res,
                          again |-> seg_first[p].computed]
           /\ seg_first' = IF seg_first[p].computed \/ ~out.res.ok THEN seg_first
                           ELSE [seg_first EXCEPT ![p] = Computed(out.res.val)]
    /\ UNCHANGED seg
    /\ UNCHANGED <<rle_vars, det_vars, st_vars>>

\* whether a read of decoded_colored_mask gets as far as np.random.randint
DrawsColor ==
    /\ ~cached_property_hit(seg_cache, "decoded_colored_mask")
    /\ boolean_mask_get(seg, seg_cache, decode_calls).res.ok
    /\ seg.mask_shape[1] * seg.mask_shape[2] # 0

AccessBooleanMask == Access("decoded_boolean_mask", <<0, 0, 0>>)
AccessIndexMask == Access("decoded_index_mask", <<0, 0, 0>>)
\* the colours np.random.randint(0, 255, size=3) can return, among those
\* whose channels are values of ChannelSamples
RandomColors ==
    {color \in [1..3 -> ChannelSamples] : color \in randint(0, 255, 3)}

AccessColoredMask ==
    \/ /\ DrawsColor
       /\ \E random_color \in RandomColors :
              Access("decoded_colored_mask", random_color)
    \/ /\ ~DrawsColor
       /\ Access("decoded_colored_mask", <<0, 0, 0>>)
AccessNumPredictedPixels == Access("num_predicted_pixels", <<0, 0, 0>>)
AccessPercentage == Access("percentage_predicted_pixels", <<0, 0, 0>>)

NextSeg ==
    \/ AccessBooleanMask
    \/ AccessIndexMask
    \/ AccessColoredMask
    \/ AccessNumPredictedPixels
    \/ AccessPercentage

SpecSeg == InitSeg /\ [][NextSeg]_vars

-----------------------------------------------------------------------------
(* Claims about the SegmentationPrediction instance                        *)

\* the bits the instance's encoded_mask decodes to
DecodedBits == decode_bitmap_rle(seg.encoded_mask, seg.encoding_map)
\* height x width of its mask_shape
ShapeSize == seg.mask_shape[1] * seg.mask_shape[2]
\* the bitmap decodes and has one bit per pixel of the shape
ValidBitmap ==
    \E decoded \in {DecodedBits} : decoded.ok /\ Len(decoded.val) = ShapeSize
\* the number of 1-bits
Ones == Cardinality({k \in 1..Len(DecodedBits.val) : DecodedBits.val[k] = 1})
\* some property has been read
Accessed == seg_ret.prop \in Props

C6_DecodedOnce ==
    ValidBitmap =>
        /\ decode_calls <= 1
        /\ seg_ret.again => seg_ret.res = Ok(seg_first[seg_ret.prop].val)

\* all five properties are cached after one decode, the mask has a predicted
\* pixel, and the coloured mask has just been read a further time
C6_Witness ==
    /\ ValidBitmap
    /\ Ones > 0
    /\ decode_calls = 1
    /\ \A p \in Props : seg_cache[p].computed /\ seg_first[p].computed
    /\ seg_ret.prop = "decoded_colored_mask"
    /\ seg_ret.again

\* C8: on an instance with a valid bitmap, num_predicted_pixels is the number
\* of 1-bits and percentage_predicted_pixels is that number over
\* height x width, a value in [0,1], for every shape, zero height or width
\* included.
C8_PixelCountAndPercentage ==
    ValidBitmap =>
        /\ seg_ret.prop = "num_predicted_pixels" => seg_ret.res = Ok(Ones)
        /\ seg_ret.prop = "percentage_predicted_pixels" =>
            /\ seg_ret.res.ok
            /\ seg_ret.res.val = <<Ones, ShapeSize>>
            /\ 0 <= Ones /\ Ones <= ShapeSize

\* the coloured mask m is the boolean mask tinted with one colour
Tinted(m, color) ==
    \A i \in 1..Len(m) : \A j \in 1..Len(m[i]) :
        m[i][j] = IF seg_cache["decoded_boolean_mask"].val[i][j] = 1
                  THEN color ELSE <<0, 0, 0>>

\* C9: each channel of the colour decoded_colored_mask draws can take every
\* value of [0,255] (followed on the values of ChannelSamples); the mask it
\* returns is the boolean mask tinted with one colour, black where the mask
\* is 0; and a repeated read returns the same coloured mask.
C9_ColoredMask ==
    (seg_ret.prop = "decoded_colored_mask" /\ seg_ret.res.ok) =>
        /\ \A k \in 1..3 : \A v \in ChannelSamples \cap (0..255) :
                \E color \in RandomColors : color[k] = v
        /\ \E color \in [1..3 -> ChannelSamples] : Tinted(seg_ret.res.val, color)
        /\ seg_ret.again => seg_ret.res.val = seg_first["decoded_colored_mask"].val

-----------------------------------------------------------------------------
(* SpecDet: one ObjectDetectionPrediction.  Its Config sets keep_untouched *)
(* only, so the model's fields stay assignable after construction.         *)

\* the getter of ObjectDetectionPrediction.num_predicted_pixels
det_num_predicted_pixels(d) ==
    (d.bboxes[3] - d.bboxes[1]) * (d.bboxes[4] - d.bboxes[2])

Boxes == (0..MaxCoord) \X (0..MaxCoord) \X (0..MaxCoord) \X (0..MaxCoord)

InitDet ==
    /\ det \in [bboxes : Boxes]
    /\ det_cache = NotComputed
    /\ det_ret = NotComputed
    /\ IdleRle /\ IdleSeg /\ IdleSt

\* a read of num_predicted_pixels, a cached_property
ReadNumPredictedPixels ==
    /\ det_cache' = IF det_cache.computed THEN det_cache
                    ELSE Computed(det_num_predicted_pixels(det))
    /\ det_ret' = det_cache'
    /\ UNCHANGED det
    /\ UNCHANGED <<rle_vars, seg_vars, st_vars>>

\* prediction.bboxes = b; det_ret is cleared: nothing was read since
SetBboxes(b) ==
    /\ det' = [det EXCEPT !.bboxes = b]
    /\ det_ret' = NotComputed
    /\ UNCHANGED det_cache
    /\ UNCHANGED <<rle_vars, seg_vars, st_vars>>

NextDet ==
    \/ ReadNumPredictedPixels
    \/ \E b \in Boxes : SetBboxes(b)

SpecDet == InitDet /\ [][NextDet]_vars

\* C7: whatever is done to the instance, a read of num_predicted_pixels
\* returns (xmax - xmin) * (ymax - ymin) of the box the instance holds (600
\* for the box (10,10,30,40)): the value cached on the first read never
\* disagrees with that box.
C7_PixelsMatchBox ==
    /\ det_num_predicted_pixels([bboxes |-> <<10, 10, 30, 40>>]) = 600
    /\ det_ret.computed => det_ret.val = det_num_predicted_pixels(det)

-----------------------------------------------------------------------------
(* SpecSt: the session state of an example App, the API configuration      *)
(* form and the credential lookup.                                         *)

\* the strings a user, a caller or the environment supplies
Values == {"", "key_v1", "land_sk_v2"}
SessionKeys == {"api_key", "api_secret", "endpoint_id"}

\* get_default_api_key(): the environment variable, None when it is not set
\* or empty
get_default_api_key(env) == IF env = Absent \/ env = "" THEN None ELSE env

\* get_api_credential_or_use_default(): st.session_state[...] raises
\* KeyError for a key that is not in the session state
get_api_credential_or_use_default(ss, env) ==
    IF ss["api_key"] = Absent \/ ss["api_secret"] = Absent
    THEN Raise("KeyError")
    ELSE IF ss["api_key"] = ""
         THEN Ok(<<get_default_api_key(env), ss["api_secret"]>>)
         ELSE Ok(<<ss["api_key"], ss["api_secret"]>>)

\* the "first time" defaults of render_api_config_form
set_defaults(ss, default_key, default_secret, default_endpoint_id) ==
    [k \in SessionKeys |->
        IF ss[k] # Absent THEN ss[k]
        ELSE CASE k = "api_key" -> default_key
               [] k = "api_secret" -> default_secret
               [] k = "endpoint_id" -> default_endpoint_id]

\* _update_credential(api_key, api_secret, endpoint_id); endpoint_id is None
\* when the form does not render the endpoint field
update_credential(ss, api_key, api_secret, endpoint_id) ==
    [k \in SessionKeys |->
        CASE k = "api_key" -> api_key
          [] k = "api_secret" -> api_secret
          [] k = "endpoint_id" ->
                IF endpoint_id # None /\ endpoint_id # ""
                THEN endpoint_id ELSE ss[k]]

InitSt ==
    /\ session_state = [k \in SessionKeys |-> Absent]
    /\ environ \in {Absent} \cup Values
    /\ st_ret = NotComputed
    /\ st_info = FALSE
    /\ IdleRle /\ IdleSeg /\ IdleDet

\* render_api_config_form(...): the defaults, the form (the text inputs
\* return what the user typed when the form is submitted), and the note
\* about the default key.  st_ret is cleared: the session state may have
\* changed since the last lookup.
RenderApiConfigForm(render_endpoint_id, default_key, default_secret, default_endpoint_id, api_key, api_secret, typed_endpoint_id, submitted) ==
    LET ss1 == set_defaults(session_state, default_key, default_secret,
                            default_endpoint_id)
        endpoint_id == IF render_endpoint_id THEN typed_endpoint_id ELSE None
        ss2 == IF submitted
               THEN update_credential(ss1, api_key, api_secret, endpoint_id)
               ELSE ss1
        cred == get_api_credential_or_use_default(ss2, environ)
    IN  /\ session_state' = ss2
        /\ st_info' = (cred.ok /\ cred.val[1] = get_default_api_key(environ))
        /\ st_ret' = NotComputed
        /\ UNCHANGED environ
        /\ UNCHANGED <<rle_vars, seg_vars, det_vars>>

\* a page calls get_api_credential_or_use_default()
GetApiCredential ==
    /\ st_ret' = Computed(get_api_credential_or_use_default(session_state, environ))
    /\ UNCHANGED <<session_state, environ, st_info>>
    /\ UNCHANGED <<rle_vars, seg_vars, det_vars>>

NextSt ==
    \/ GetApiCredential
    \/ \E render_endpoint_id, submitted \in BOOLEAN :
       \E default_key, default_secret, default_endpoint_id \in Values :
       \E api_key, api_secret, typed_endpoint_id \in Values :
          RenderApiConfigForm(render_endpoint_id, default_key, default_secret,
                              default_endpoint_id, api_key, api_secret,
                              typed_endpoint_id, submitted)

SpecSt == InitSt /\ [][NextSt]_vars

\* C10: after any sequence of renders and saves, none included,
\* get_api_credential_or_use_default() does not fail; it returns the key and
\* the secret of the session state, with the default key of the environment
\* in place of a key that is absent or empty.
C10_CredentialOrDefault ==
    st_ret.computed =>
        /\ st_ret.val.ok
        /\ st_ret.val.val[1] =
              IF session_state["api_key"] \in {Absent, ""}
              THEN get_default_api_key(environ) ELSE session_state["api_key"]
        /\ st_ret.val.val[2] = session_state["api_secret"]

=============================================================================
